---- MODULE Spec2Model ----
(***************************************************************************)
(* Body-composition service: the ingestion script                         *)
(* (backend/database/upload_data.py), the store client handle             *)
(* (backend/db.py, backend/main.py), the three query endpoints            *)
(* (backend/routers/charts.py) and the loader of the notebooks            *)
(* (utils/data_processing.py).                                            *)
(*                                                                         *)
(* Time is counted in ticks; a day has TicksPerDay ticks, tick 0 of a day  *)
(* is midnight and tick TicksPerDay-1 is the last representable instant   *)
(* of the day (23:59:59.999999).  Metric values are integers in the unit   *)
(* they are stored in; a value rounded to 2 decimals is carried in         *)
(* hundredths.                                                             *)
(***************************************************************************)
EXTENDS Integers, Sequences, FiniteSets, TLC

VARIABLES
    store,        \* the body_composition collection: documents in natural order
    resp,         \* the outcome of the last endpoint call (with its intermediate frames)
    lastOp,       \* the operation that made the last step
    _client,      \* MongoDBClient._client: None or a client id
    constructed,  \* number of AsyncMongoClient objects constructed so far
    closing,      \* client ids on which close() has been started
    lifespan_pc,  \* position of the lifespan context manager
    close_pc,     \* close_client of the lifespan: the client it is awaiting close() on
    handles,      \* per request task: the client get_database handed it, with the phase
    calc          \* inputs and result of one call of a function that keeps no state:
                  \* the variation arithmetic, load_data, calculate_monthly_stats

vars == <<store, resp, lastOp, _client, constructed, closing, lifespan_pc,
          close_pc, handles, calc>>

storeVars  == <<store, resp, lastOp>>
clientVars == <<_client, constructed, closing, lifespan_pc, close_pc, handles>>

\* a null cell of a data frame, a null field of a document (no metric value is negative)
Null == -1

\* MongoDBClient._client before the first get_client and after close_client
None == 0

-----------------------------------------------------------------------------
(* Bounds of the model *)

TicksPerDay == 2      \* instants modelled per calendar day
MaxDocs     == 4      \* documents the collection may hold
MaxBatch    == 2      \* rows of one export file
MaxTasks    == 3      \* concurrent request tasks
MaxGain     == 12     \* largest net gain fed to the variation arithmetic
MaxBucketDocs == 3    \* documents of a collection the time progression or the scatter is run against
MaxDay      == 2      \* last calendar day a query may name
MaxLoadRows == 3      \* rows of a file handed to load_data
DaysPerMonth == 2     \* calendar days of a month
MaxStatsRows == 4     \* rows of a frame handed to calculate_monthly_stats

-----------------------------------------------------------------------------
(* Dates *)

\* datetime for a calendar day at a tick of that day
At(day, tick) == day * TicksPerDay + tick

\* datetime.fromisoformat("YYYY-MM-DD"): midnight of the day
Midnight(day) == At(day, 0)

\* the '%Y-%m-%d' day of a datetime
DayOf(t) == t \div TicksPerDay

\* timedelta.days of (a - b): whole days, floored
DeltaDays(a, b) == (a - b) \div TicksPerDay

\* dt.replace(hour=0, minute=0, second=0, microsecond=0)
ReplaceMidnight(t) == Midnight(DayOf(t))

\* dt.replace(hour=23, minute=59, second=59, microsecond=999999)
ReplaceEndOfDay(t) == At(DayOf(t), TicksPerDay - 1)

-----------------------------------------------------------------------------
(* Measurements *)

Measures == {"muscleMass", "weight", "bodyFatMass", "totalBodyWater", "basalMetabolicRate"}

\* the order of the list `measures` in get_variation_card
measures == <<"muscleMass", "weight", "bodyFatMass", "totalBodyWater", "basalMetabolicRate">>

Devices == {"devA", "devB"}

\* a metric vector with every measure at v
Uniform(v) == [m \in Measures |-> v]

\* a metric vector equal to vec except for measure m
With(vec, m, v) == [vec EXCEPT ![m] = v]

-----------------------------------------------------------------------------
(* Ingestion: backend/database/upload_data.py *)

\* raw cell values of the export, in thousandths of the unit
RawValues == {10004, 20000}

\* pl.col(c).cast(float).round(2): thousandths to hundredths, half away from zero
RoundCol(raw) == IF raw = Null THEN Null ELSE (raw + 5) \div 10

\* pl.col("basal_metabolic_rate").cast(int): truncated to a whole number (kept in hundredths)
IntCol(raw) == IF raw = Null THEN Null ELSE (raw \div 1000) * 100

\* the (create_time, deviceuuid) pairs of the rows of an export
IngestKeys == {<<Midnight(0), "devA">>, <<Midnight(0), "devB">>, <<Midnight(1), "devA">>}

\* the rows of an export: every metric cell filled with the same reading, or a row
\* whose weight cell is empty
Rows ==
    {[create_time |-> k[1], deviceuuid |-> k[2], cells |-> Uniform(v)] :
        k \in IngestKeys, v \in RawValues}
    \cup {[create_time |-> Midnight(0), deviceuuid |-> "devA",
           cells |-> With(Uniform(20000), "weight", Null)]}

\* the data frames read_from_csv can hand over: up to MaxBatch rows
Exports == UNION {[1..n -> Rows] : n \in 0..MaxBatch}

\* select / with_columns / rename of one row (timeOffset is carried along untouched
\* and no operation reads it: it is left out of the document)
Normalise(row) ==
    [measureDate |-> row.create_time,
     deviceId    |-> row.deviceuuid,
     vals        |-> [m \in Measures |->
                        IF m = "basalMetabolicRate" THEN IntCol(row.cells[m])
                        ELSE RoundCol(row.cells[m])]]

HasNull(rec) == \E m \in Measures : rec.vals[m] = Null

RECURSIVE SelectSeqNoNull(_)
\* data.drop_nulls(): the rows without a null, in their order
SelectSeqNoNull(recs) ==
    IF recs = <<>> THEN <<>>
    ELSE IF HasNull(Head(recs)) THEN SelectSeqNoNull(Tail(recs))
         ELSE <<Head(recs)>> \o SelectSeqNoNull(Tail(recs))

\* data.to_dicts() after the column operations
ToDicts(data) == SelectSeqNoNull([i \in 1..Len(data) |-> Normalise(data[i])])

\* the filter of one UpdateOne: {"measureDate": ..., "deviceId": ...}
Matches(doc, rec) == doc.measureDate = rec.measureDate /\ doc.deviceId = rec.deviceId

\* the store applies this to the first matching document of the collection
UpdateFirst(coll, rec) ==
    LET i == CHOOSE j \in 1..Len(coll) :
                 /\ Matches(coll[j], rec)
                 /\ \A k \in 1..(j - 1) : ~Matches(coll[k], rec)
    IN [coll EXCEPT ![i] = [measureDate |-> rec.measureDate,
                            deviceId    |-> rec.deviceId,
                            vals        |-> rec.vals]]

\* a mutated write: insert_one in place of the upsert
InsertOne(coll, rec) == Append(coll, rec)

\* UpdateOne(filter, {"$set": record}, upsert=True) applied by the store
UpdateOne(coll, rec) ==
    IF \E j \in 1..Len(coll) : Matches(coll[j], rec)
    THEN UpdateFirst(coll, rec)
    ELSE Append(coll, rec)

\* the orders in which the store may apply n operations
Orders(n) == {p \in [1..n -> 1..n] : \A i, j \in 1..n : p[i] = p[j] => i = j}

RECURSIVE ApplyInOrder(_, _, _, _)
ApplyInOrder(coll, operations, order, k) ==
    IF k > Len(order) THEN coll
    ELSE ApplyInOrder(UpdateOne(coll, operations[order[k]]), operations, order, k + 1)

\* collection.bulk_write(operations, ordered=False): every operation is applied once,
\* each atomically, in an order the store chooses
BulkWrite(coll, operations, order) == ApplyInOrder(coll, operations, order, 1)

\* for every (measureDate, deviceId) of the operations, the values of the last
\* operation carrying it
LastWrites(operations) ==
    LET keys == {<<operations[i].measureDate, operations[i].deviceId>> : i \in 1..Len(operations)}
        lastIdx(k) == CHOOSE i \in 1..Len(operations) :
                        /\ <<operations[i].measureDate, operations[i].deviceId>> = k
                        /\ \A j \in (i + 1)..Len(operations) :
                              <<operations[j].measureDate, operations[j].deviceId>> # k
    IN [k \in keys |-> operations[lastIdx(k)].vals]

upload_body_composition_data ==
    \E data \in Exports :
        LET operations == ToDicts(data) IN
        /\ IF operations # <<>>
           THEN \E order \in Orders(Len(operations)) :
                    store' = BulkWrite(store, operations, order)
           ELSE store' = store
        /\ Len(store') <= MaxDocs
        /\ resp' = [op |-> "none"]
        /\ lastOp' = [op |-> "upload", last |-> LastWrites(operations)]
        /\ UNCHANGED <<clientVars, calc>>


-----------------------------------------------------------------------------
(* The store client handle: backend/db.py, and its owner, lifespan in backend/main.py *)

Tasks == 1..MaxTasks

NoHandle == [client |-> None, phase |-> "none", closing |-> FALSE]

\* a mutated get_client: the handle is not consulted, every call constructs a client
GetClientAlwaysNew(cur, made) == [client |-> made + 1, made |-> made + 1]

\* MongoDBClient.get_client: the body has no await, so it runs as one step.
\* cur is cls._client, made the number of clients constructed so far; a new client
\* gets the next id.  (CONNECTION_STRING is checked non-empty at import and the
\* constructor does not connect.)
GetClient(cur, made) ==
    IF cur = None
    THEN [client |-> made + 1, made |-> made + 1]
    ELSE [client |-> cur, made |-> made]

\* lifespan, before the yield: await MongoDBClient.get_client()
LifespanStartup ==
    /\ lifespan_pc = "start"
    /\ LET r == GetClient(_client, constructed) IN
        /\ _client' = r.client
        /\ constructed' = r.made
    /\ lifespan_pc' = "serving"
    /\ UNCHANGED <<closing, close_pc, handles, storeVars, calc>>

\* Depends(MongoDBClient.get_database) of a request task: get_client, then
\* client[DATABASE_NAME]; the database is identified by its client
get_database(t) ==
    /\ handles[t] = NoHandle
    /\ constructed < MaxTasks + 1
    /\ LET r == GetClient(_client, constructed) IN
        /\ _client' = r.client
        /\ constructed' = r.made
        /\ handles' = [handles EXCEPT ![t] =
                          [client |-> r.client, phase |-> lifespan_pc,
                           closing |-> r.client \in closing]]
    /\ UNCHANGED <<closing, close_pc, lifespan_pc, storeVars, calc>>

RequestGetDatabase == \E t \in Tasks : get_database(t)

\* the request ends and drops its database
RequestDone ==
    \E t \in Tasks :
        /\ handles[t] # NoHandle
        /\ handles' = [handles EXCEPT ![t] = NoHandle]
        /\ UNCHANGED <<_client, constructed, closing, close_pc, lifespan_pc, storeVars, calc>>

\* lifespan, after the yield: close_client up to its await.
\* `if cls._client:` then `await cls._client.close()` is entered
CloseClientBegin ==
    /\ lifespan_pc = "serving"
    /\ IF _client # None
       THEN /\ closing' = closing \cup {_client}
            /\ close_pc' = _client
            /\ lifespan_pc' = "closing"
       ELSE /\ lifespan_pc' = "stopped"
            /\ UNCHANGED <<closing, close_pc>>
    /\ UNCHANGED <<_client, constructed, handles, storeVars, calc>>

\* close_client after its await: cls._client = None
CloseClientEnd ==
    /\ lifespan_pc = "closing"
    /\ _client' = None
    /\ close_pc' = None
    /\ lifespan_pc' = "stopped"
    /\ UNCHANGED <<constructed, closing, handles, storeVars, calc>>

NextClient ==
    \/ LifespanStartup
    \/ RequestGetDatabase
    \/ RequestDone
    \/ CloseClientBegin
    \/ CloseClientEnd

-----------------------------------------------------------------------------
(* Numbers: Python floats are modelled by exact fractions num/den, den > 0 *)

Abs(x) == IF x < 0 THEN -x ELSE x

\* the integer nearest to num/den, ties to the even one (Python's round)
RoundHalfEven(num, den) ==
    LET q == num \div den
        r == num % den
    IN IF 2 * r < den THEN q
       ELSE IF 2 * r > den THEN q + 1
       ELSE IF q % 2 = 0 THEN q ELSE q + 1

\* round(x, 2) of x = num/den, in hundredths
Round2(num, den) == RoundHalfEven(100 * num, den)

-----------------------------------------------------------------------------
(* Query inputs *)

RECURSIVE Ascending(_)
\* the numbers of a set, ascending
Ascending(T) ==
    IF T = {} THEN <<>>
    ELSE LET lo == CHOOSE t \in T : \A u \in T : t <= u
         IN <<lo>> \o Ascending(T \ {lo})

\* a date parameter: a YYYY-MM-DD string naming a day, or a string that does not parse
DateParam(days) == {[ok |-> TRUE, day |-> d] : d \in days} \cup {[ok |-> FALSE, day |-> 0]}

RECURSIVE FindBelow(_, _, _)
\* a mutated find: '$lt' in place of '$lte'
FindBelow(coll, lo, hi) ==
    IF coll = <<>> THEN <<>>
    ELSE IF lo <= Head(coll).measureDate /\ Head(coll).measureDate < hi
         THEN <<Head(coll)>> \o FindBelow(Tail(coll), lo, hi)
         ELSE FindBelow(Tail(coll), lo, hi)

\* collection.find({'measureDate': {'$gte': lo, '$lte': hi}}): the matching documents
\* in natural order
RECURSIVE Find(_, _, _)
Find(coll, lo, hi) ==
    IF coll = <<>> THEN <<>>
    ELSE IF lo <= Head(coll).measureDate /\ Head(coll).measureDate <= hi
         THEN <<Head(coll)>> \o Find(Tail(coll), lo, hi)
         ELSE Find(Tail(coll), lo, hi)

RECURSIVE FilterThrough(_, _, _)
\* a mutated filter: measureDate <= hi in place of measureDate < hi
FilterThrough(df, lo, hi) ==
    IF df = <<>> THEN <<>>
    ELSE IF lo <= Head(df).measureDate /\ Head(df).measureDate <= hi
         THEN <<Head(df)>> \o FilterThrough(Tail(df), lo, hi)
         ELSE FilterThrough(Tail(df), lo, hi)

\* df.filter(lo <= measureDate < hi), rows kept in order
RECURSIVE FilterBefore(_, _, _)
FilterBefore(df, lo, hi) ==
    IF df = <<>> THEN <<>>
    ELSE IF lo <= Head(df).measureDate /\ Head(df).measureDate < hi
         THEN <<Head(df)>> \o FilterBefore(Tail(df), lo, hi)
         ELSE FilterBefore(Tail(df), lo, hi)

\* df.sort("measureDate"): the rows in ascending measureDate; rows with equal
\* measureDate come in an order the sort does not promise (maintain_order is off)
Sorts(df) ==
    {[i \in 1..Len(df) |-> df[p[i]]] : p \in
        {q \in Orders(Len(df)) :
            \A i, j \in 1..Len(df) : i < j => df[q[i]].measureDate <= df[q[j]].measureDate}}

display_name ==
    [m \in Measures |->
        CASE m = "muscleMass" -> "Muscle Mass"
          [] m = "weight" -> "Weight"
          [] m = "bodyFatMass" -> "Body Fat Mass"
          [] m = "totalBodyWater" -> "Total Body Water"
          [] m = "basalMetabolicRate" -> "Basal Metabolic Rate"]

-----------------------------------------------------------------------------
(* Variation cards: get_variation_card in backend/routers/charts.py *)

positive_measures ==
    [m \in Measures |-> m # "bodyFatMass"]

\* a mutated variation: the divisor keeps its sign
VariationSignedDivisor(current_gain, previous_gain) ==
    IF previous_gain = 0
    THEN IF current_gain = 0 THEN [num |-> 0, den |-> 1]
         ELSE IF current_gain > 0 THEN [num |-> 100, den |-> 1] ELSE [num |-> -100, den |-> 1]
    ELSE IF previous_gain > 0
         THEN [num |-> (current_gain - previous_gain) * 100, den |-> previous_gain]
         ELSE [num |-> -((current_gain - previous_gain) * 100), den |-> -previous_gain]

\* the percentage variation of two net gains, as the fraction num/den
Variation(current_gain, previous_gain) ==
    IF previous_gain = 0
    THEN IF current_gain = 0 THEN [num |-> 0, den |-> 1]
         ELSE IF current_gain > 0 THEN [num |-> 100, den |-> 1] ELSE [num |-> -100, den |-> 1]
    ELSE [num |-> (current_gain - previous_gain) * 100, den |-> Abs(previous_gain)]

\* a mutated flag: the polarity of the measure is not consulted
VariationIsPositiveAnyMeasure(measure, variation) == variation.num > 0

\* variation_is_positive
VariationIsPositive(measure, variation) ==
    IF positive_measures[measure] THEN variation.num > 0 ELSE variation.num < 0

\* VariationCard(measure=..., value=round(current_gain, 2), variation=round(variation, 2),
\* positive=...); gains are in hundredths, the card's numbers are in hundredths
VariationCard(measure, current_gain, variation) ==
    [measure   |-> display_name[measure],
     value     |-> Round2(current_gain, 100),
     variation |-> Round2(variation.num, variation.den),
     positive  |-> VariationIsPositive(measure, variation)]

\* a mutated gain: first minus last
GainReversed(sorted, measure) ==
    LET first == sorted[1].vals[measure]
        last  == sorted[Len(sorted)].vals[measure]
    IN IF first = Null \/ last = Null
       THEN [raised |-> TRUE, gain |-> 0]
       ELSE [raised |-> FALSE, gain |-> first - last]

\* last minus first of a column of a sorted frame; subtracting with a null raises
Gain(sorted, measure) ==
    LET first == sorted[1].vals[measure]
        last  == sorted[Len(sorted)].vals[measure]
    IN IF first = Null \/ last = Null
       THEN [raised |-> TRUE, gain |-> 0]
       ELSE [raised |-> FALSE, gain |-> last - first]

\* one turn of the loop over measures: the card, or the exception that skips it
MeasureResult(measure, current_sorted, previous_sorted) ==
    LET cur  == Gain(current_sorted, measure)
        prev == IF Len(previous_sorted) > 0 THEN Gain(previous_sorted, measure)
                ELSE [raised |-> FALSE, gain |-> 0]
    IN IF cur.raised \/ prev.raised
       THEN [raised |-> TRUE, measure |-> measure, current_gain |-> 0, previous_gain |-> 0,
             variation |-> [num |-> 0, den |-> 1],
             card |-> VariationCard(measure, 0, [num |-> 0, den |-> 1])]
       ELSE [raised |-> FALSE, measure |-> measure,
             current_gain |-> cur.gain, previous_gain |-> prev.gain,
             variation |-> Variation(cur.gain, prev.gain),
             card |-> VariationCard(measure, cur.gain, Variation(cur.gain, prev.gain))]

\* the loop: what each measure came to, in the order of `measures`
LoopResults(current_sorted, previous_sorted) ==
    [i \in 1..Len(measures) |-> MeasureResult(measures[i], current_sorted, previous_sorted)]

RECURSIVE CardsUntilRaise(_)
\* a mutated loop: the first measure that raises ends the loop (break for continue)
CardsUntilRaise(loop) ==
    IF loop = <<>> THEN <<>>
    ELSE IF Head(loop).raised THEN <<>>
         ELSE <<Head(loop).card>> \o CardsUntilRaise(Tail(loop))

RECURSIVE CardsOf(_)
\* results: the cards of the measures that did not raise
CardsOf(loop) ==
    IF loop = <<>> THEN <<>>
    ELSE IF Head(loop).raised THEN CardsOf(Tail(loop))
         ELSE <<Head(loop).card>> \o CardsOf(Tail(loop))

VariationResp(status, detail, start, end, pps, current, previous, loop, cards) ==
    [op |-> "variation", status |-> status, detail |-> detail,
     start |-> start, end |-> end, previous_period_start |-> pps,
     current_data |-> current, previous_data |-> previous,
     loop |-> loop, cards |-> cards]

\* the handler from the validation on; current_sorted and previous_sorted are the two
\* sorted frames (sorts of the two filtered frames)
VariationOutcome(coll, start_date, end_date, current_sorted, previous_sorted) ==
    IF ~start_date.ok \/ ~end_date.ok
    THEN VariationResp(400, "Invalid date format", 0, 0, 0, <<>>, <<>>, <<>>, <<>>)
    ELSE
    LET start == ReplaceMidnight(Midnight(start_date.day))
        end   == ReplaceEndOfDay(Midnight(end_date.day))
        days  == DeltaDays(end, start)
        pps   == start - days * TicksPerDay
        all_data == Find(coll, pps, end)
    IN IF days <= 0
       THEN VariationResp(400, "End date must be after start date",
                          start, end, start, <<>>, <<>>, <<>>, <<>>)
       ELSE IF all_data = <<>>
       THEN VariationResp(404, "No data found for the specified date range",
                          start, end, pps, <<>>, <<>>, <<>>, <<>>)
       ELSE IF current_sorted = <<>>
       THEN VariationResp(404, "No data found for the current period",
                          start, end, pps, <<>>, previous_sorted, <<>>, <<>>)
       ELSE LET loop == LoopResults(current_sorted, previous_sorted) IN
            IF CardsOf(loop) = <<>>
            THEN VariationResp(404, "No valid variation calculations could be performed",
                               start, end, pps, current_sorted, previous_sorted, loop, <<>>)
            ELSE VariationResp(200, "", start, end, pps, current_sorted, previous_sorted,
                               loop, CardsOf(loop))

\* the two filtered frames of a request (empty when the request is rejected before)
CurrentData(coll, start_date, end_date) ==
    IF ~start_date.ok \/ ~end_date.ok THEN <<>>
    ELSE LET start == ReplaceMidnight(Midnight(start_date.day))
             end   == ReplaceEndOfDay(Midnight(end_date.day))
             pps   == start - DeltaDays(end, start) * TicksPerDay
         IN IF DeltaDays(end, start) <= 0 THEN <<>>
            ELSE Find(Find(coll, pps, end), start, end)

PreviousData(coll, start_date, end_date) ==
    IF ~start_date.ok \/ ~end_date.ok THEN <<>>
    ELSE LET start == ReplaceMidnight(Midnight(start_date.day))
             end   == ReplaceEndOfDay(Midnight(end_date.day))
             pps   == start - DeltaDays(end, start) * TicksPerDay
         IN IF DeltaDays(end, start) <= 0 THEN <<>>
            ELSE FilterBefore(Find(coll, pps, end), pps, start)

\* a mutated handler: the documents read are taken out of the collection
\* (find_one_and_delete in place of find)
get_variation_card_consuming(days) ==
    \E start_date \in DateParam(days), end_date \in DateParam(days) :
      \E current_sorted \in Sorts(CurrentData(store, start_date, end_date)),
         previous_sorted \in Sorts(PreviousData(store, start_date, end_date)) :
        /\ resp' = VariationOutcome(store, start_date, end_date, current_sorted, previous_sorted)
        /\ lastOp' = [op |-> "variation"]
        /\ store' = SelectSeq(store, LAMBDA d :
                        \A i \in 1..Len(current_sorted) : current_sorted[i] # d)
        /\ UNCHANGED <<clientVars, calc>>

\* GET /variation-card with its dates drawn from `days`
get_variation_card(days) ==
    \E start_date \in DateParam(days), end_date \in DateParam(days) :
      \E current_sorted \in Sorts(CurrentData(store, start_date, end_date)),
         previous_sorted \in Sorts(PreviousData(store, start_date, end_date)) :
        /\ resp' = VariationOutcome(store, start_date, end_date, current_sorted, previous_sorted)
        /\ lastOp' = [op |-> "variation"]
        /\ UNCHANGED <<store, clientVars, calc>>

-----------------------------------------------------------------------------
(* Scatter: get_scatter in backend/routers/charts.py *)

allowed_fields == Measures

RECURSIVE SumSeq(_)
SumSeq(xs) == IF xs = <<>> THEN 0 ELSE Head(xs) + SumSeq(Tail(xs))

MinOf(xs) == CHOOSE x \in {xs[i] : i \in 1..Len(xs)} : \A i \in 1..Len(xs) : x <= xs[i]
MaxOf(xs) == CHOOSE x \in {xs[i] : i \in 1..Len(xs)} : \A i \in 1..Len(xs) : x >= xs[i]

RECURSIVE NonNull(_)
\* the values of a column that are not null, in order
NonNull(xs) ==
    IF xs = <<>> THEN <<>>
    ELSE IF Head(xs) = Null THEN NonNull(Tail(xs)) ELSE <<Head(xs)>> \o NonNull(Tail(xs))

Column(rows, field) == [i \in 1..Len(rows) |-> rows[i].vals[field]]

\* a mutated average: the sum over n - 1 (the divisor of the sample variance)
RoundedMeanDdof(rows, field) ==
    LET xs == NonNull(Column(rows, field))
    IN IF xs = <<>> THEN Null
       ELSE IF Len(xs) = 1 THEN xs[1]
       ELSE RoundHalfEven(SumSeq(xs), Len(xs) - 1)

\* an average that skips nulls ($avg of the store, mean() of a frame), rounded to 2
\* decimals by the caller: null when no value is left
RoundedMean(rows, field) ==
    LET xs == NonNull(Column(rows, field))
    IN IF xs = <<>> THEN Null ELSE RoundHalfEven(SumSeq(xs), Len(xs))

RECURSIVE RowsOfDay(_, _)
RowsOfDay(rows, day) ==
    IF rows = <<>> THEN <<>>
    ELSE IF DayOf(Head(rows).measureDate) = day
         THEN <<Head(rows)>> \o RowsOfDay(Tail(rows), day)
         ELSE RowsOfDay(Tail(rows), day)

\* a mutated pipeline: no $group stage, every matched document is a row of its own
AggregatePerRecord(coll, start, end, x_field, y_field) ==
    LET matched == Find(coll, start, end)
    IN [i \in 1..Len(matched) |->
           [day  |-> DayOf(matched[i].measureDate),
            avgx |-> matched[i].vals[x_field],
            avgy |-> matched[i].vals[y_field]]]

\* the pipeline: $match, $addFields day, $group by day with the two $avg, $sort by day
Aggregate(coll, start, end, x_field, y_field) ==
    LET matched == Find(coll, start, end)
        days    == Ascending({DayOf(matched[i].measureDate) : i \in 1..Len(matched)})
    IN [i \in 1..Len(days) |->
           [day  |-> days[i],
            avgx |-> RoundedMean(RowsOfDay(matched, days[i]), x_field),
            avgy |-> RoundedMean(RowsOfDay(matched, days[i]), y_field)]]

\* ScatterPoint(x=round(avg x, 2), y=round(avg y, 2), date=..., elapseDays=...)
ScatterPoint(doc, start) ==
    [x |-> doc.avgx, y |-> doc.avgy, date |-> Midnight(doc.day),
     elapseDays |-> DeltaDays(Midnight(doc.day), start)]

\* np.corrcoef(x_values, y_values)[0, 1] as the three sums it is made of:
\* cov / sqrt(varx * vary), not a number when a series is constant
Correlation(points) ==
    LET n   == Len(points)
        sx  == SumSeq([i \in 1..n |-> points[i].x])
        sy  == SumSeq([i \in 1..n |-> points[i].y])
        sxy == SumSeq([i \in 1..n |-> points[i].x * points[i].y])
        sxx == SumSeq([i \in 1..n |-> points[i].x * points[i].x])
        syy == SumSeq([i \in 1..n |-> points[i].y * points[i].y])
    IN IF n > 1
       THEN [kind |-> IF n * sxx - sx * sx = 0 \/ n * syy - sy * sy = 0
                      THEN "nan" ELSE "float",
             cov |-> n * sxy - sx * sy, varx |-> n * sxx - sx * sx, vary |-> n * syy - sy * sy]
       ELSE [kind |-> "None", cov |-> 0, varx |-> 0, vary |-> 0]

ScatterResp(status, detail, start, end, correlation, points) ==
    [op |-> "scatter", status |-> status, detail |-> detail, start |-> start, end |-> end,
     correlation |-> correlation, dataPoints |-> points]

NoCorrelation == [kind |-> "None", cov |-> 0, varx |-> 0, vary |-> 0]

\* the handler; round() of a null average raises, and so does
\* MetricsRelationshipChart for a correlation that is None (the field is a required float)
ScatterOutcome(coll, start_date, end_date, x_field, y_field) ==
    IF ~start_date.ok \/ ~end_date.ok
    THEN ScatterResp(400, "Invalid date format", 0, 0, NoCorrelation, <<>>)
    ELSE
    LET start   == Midnight(start_date.day)
        end     == Midnight(end_date.day)
        docs    == Aggregate(coll, start, end, x_field, y_field)
        results == [i \in 1..Len(docs) |-> ScatterPoint(docs[i], start)]
    IN IF x_field \notin allowed_fields \/ y_field \notin allowed_fields
       THEN ScatterResp(400, "Invalid field selection", start, end, NoCorrelation, <<>>)
       ELSE IF \E i \in 1..Len(docs) : docs[i].avgx = Null \/ docs[i].avgy = Null
       THEN ScatterResp(500, "TypeError", start, end, NoCorrelation, <<>>)
       ELSE IF Correlation(results).kind = "None"
       THEN ScatterResp(500, "ValidationError", start, end, NoCorrelation, results)
       ELSE ScatterResp(200, "", start, end, Correlation(results), results)

\* GET /measurements with its dates drawn from `days` and its fields from `fields`
get_scatter(days, fields) ==
    \E start_date \in DateParam(days), end_date \in DateParam(days),
       x_field \in fields, y_field \in fields :
        /\ resp' = ScatterOutcome(store, start_date, end_date, x_field, y_field)
        /\ lastOp' = [op |-> "scatter", start_date |-> start_date, end_date |-> end_date,
                       x_field |-> x_field, y_field |-> y_field]
        /\ UNCHANGED <<store, clientVars, calc>>

-----------------------------------------------------------------------------
(* Time progression: get_time_progression in backend/routers/charts.py *)

\* group_time: int = Query(..., ge=7)
MinGroupTime == 7

\* Duration.dt.total_days(): whole days, truncated
TotalDays(d) == IF d >= 0 THEN d \div TicksPerDay ELSE -((-d) \div TicksPerDay)

\* a mutated time_group: the quotient is rounded up
TimeGroupCeil(measureDate, start, group_time) ==
    (TotalDays(measureDate - start) + group_time - 1) \div group_time

\* the time_group column: total_days // group_time
TimeGroup(measureDate, start, group_time) == TotalDays(measureDate - start) \div group_time

\* the rows (by position in the frame) of one time_group
RowsOfGroup(df, start, group_time, g) ==
    {i \in 1..Len(df) : TimeGroup(df[i].measureDate, start, group_time) = g}

RECURSIVE Pick(_, _)
\* the rows of a frame at the positions of a set, in order
Pick(df, rows) ==
    IF rows = {} THEN <<>>
    ELSE LET i == CHOOSE j \in rows : \A k \in rows : j <= k
         IN <<df[i]>> \o Pick(df, rows \ {i})

\* the sample standard deviation (ddof = 1) of a column, rounded to 2 decimals:
\* null for fewer than 2 values.  The variance N/D is taken of the distances to the
\* smallest value (the same number); the result is the s with
\* (s - 1/2)^2 <= N/D < (s + 1/2)^2.
RoundedStd(rows, field) ==
    LET xs == NonNull(Column(rows, field))
        n  == Len(xs)
        ds == [i \in 1..n |-> xs[i] - MinOf(xs)]
        N  == n * SumSeq([i \in 1..n |-> ds[i] * ds[i]]) - SumSeq(ds) * SumSeq(ds)
        D  == n * (n - 1)
    IN IF n < 2 THEN Null
       ELSE IF N = 0 THEN 0
       ELSE CHOOSE s \in 0..MaxOf(ds) :
               /\ (2 * s - 1) * (2 * s - 1) * D <= 4 * N
               /\ 4 * N < (2 * s + 1) * (2 * s + 1) * D

\* pl.col("measureDate").min() and .max()
MinDate(rows) == MinOf([i \in 1..Len(rows) |-> rows[i].measureDate])
MaxDate(rows) == MaxOf([i \in 1..Len(rows) |-> rows[i].measureDate])

RECURSIVE Descending(_)
\* the numbers of a set, descending
Descending(T) ==
    IF T = {} THEN <<>>
    ELSE LET hi == CHOOSE t \in T : \A u \in T : t >= u
         IN <<hi>> \o Descending(T \ {hi})

\* a mutated order of the groups: the largest time_group first
TimeGroupsDescending(df, start, group_time) ==
    Descending({TimeGroup(df[i].measureDate, start, group_time) : i \in 1..Len(df)})

\* the keys of group_by("time_group") after .sort("time_group")
TimeGroups(df, start, group_time) ==
    Ascending({TimeGroup(df[i].measureDate, start, group_time) : i \in 1..Len(df)})

\* a mutated fill: the null is passed on
FillNullKeep(x, v) == x

\* fill_null(v) of a cell, and `x if x is not None else v`
FillNull(x, v) == IF x = Null THEN v ELSE x

\* group_by("time_group").agg([...]).sort("time_group"), with std_value.fill_null(0)
Grouped(df, start, group_time, measure_field) ==
    LET gs == TimeGroups(df, start, group_time)
    IN [k \in 1..Len(gs) |->
          LET members == RowsOfGroup(df, start, group_time, gs[k])
              rows    == Pick(df, members)
          IN [time_group |-> gs[k],
              members    |-> members,
              mean_value |-> RoundedMean(rows, measure_field),
              std_value  |-> FillNull(RoundedStd(rows, measure_field), 0),
              group_start_date |-> MinDate(rows),
              group_end_date   |-> MaxDate(rows)]]

\* a mutated midpoint: the division by 2 is left out
MidpointSum(a, b) == a + b

\* datetime.fromtimestamp(a.timestamp() + (b.timestamp() - a.timestamp()) / 2)
Midpoint(a, b) == RoundHalfEven(a + b, 2)

\* a mutated point: the representative date is not capped at end
TimeProgressionPointNoCap(row, end) ==
    [value |-> row.mean_value,
     std   |-> FillNull(row.std_value, 0),
     date  |-> Midpoint(row.group_start_date, row.group_end_date)]

\* TimeProgressionPoint(value=..., std=..., date=representative_date)
TimeProgressionPoint(row, end) ==
    [value |-> row.mean_value,
     std   |-> FillNull(row.std_value, 0),
     date  |-> IF Midpoint(row.group_start_date, row.group_end_date) > end THEN end
               ELSE Midpoint(row.group_start_date, row.group_end_date)]

ProgressionResp(status, detail, start, end, group_time, data, grouped, points) ==
    [op |-> "progression", status |-> status, detail |-> detail, start |-> start,
     end |-> end, group_time |-> group_time, data |-> data, grouped |-> grouped,
     dataPoints |-> points]

\* the handler; a group_time below 7 is turned down before the handler runs (422), a
\* point whose mean is null fails the validation of TimeProgressionPoint
ProgressionOutcome(coll, start_date, end_date, measure_field, group_time) ==
    IF group_time < MinGroupTime
    THEN ProgressionResp(422, "ge=7", 0, 0, group_time, <<>>, <<>>, <<>>)
    ELSE IF ~start_date.ok \/ ~end_date.ok
    THEN ProgressionResp(400, "Invalid date format", 0, 0, group_time, <<>>, <<>>, <<>>)
    ELSE
    LET start == Midnight(start_date.day)
        end0  == Midnight(end_date.day)
        data  == Find(coll, start, end0)
    IN IF group_time <= 0
       THEN ProgressionResp(400, "Group time must be greater than 0", start, end0,
                            group_time, <<>>, <<>>, <<>>)
       ELSE IF measure_field \notin allowed_fields
       THEN ProgressionResp(400, "Invalid field selection", start, end0, group_time,
                            <<>>, <<>>, <<>>)
       ELSE IF data = <<>>
       THEN ProgressionResp(404, "No data found for the specified date range", start, end0,
                            group_time, <<>>, <<>>, <<>>)
       ELSE
       LET end     == IF MaxDate(data) < end0 THEN ReplaceMidnight(MaxDate(data)) ELSE end0
           grouped == Grouped(data, start, group_time, measure_field)
       IN IF \E k \in 1..Len(grouped) : grouped[k].mean_value = Null
          THEN ProgressionResp(500, "ValidationError", start, end, group_time, data,
                               grouped, <<>>)
          ELSE ProgressionResp(200, "", start, end, group_time, data, grouped,
                               [k \in 1..Len(grouped) |-> TimeProgressionPoint(grouped[k], end)])

\* GET /time-progression with its parameters drawn from the given sets
get_time_progression(starts, ends, fields, group_times) ==
    \E start_date \in DateParam(starts), end_date \in DateParam(ends),
       measure_field \in fields, group_time \in group_times :
        /\ resp' = ProgressionOutcome(store, start_date, end_date, measure_field, group_time)
        /\ lastOp' = [op |-> "progression", start_date |-> start_date,
                       end_date |-> end_date, measure_field |-> measure_field,
                       group_time |-> group_time]
        /\ UNCHANGED <<store, clientVars, calc>>

\* lines 308-333 of the handler on their own: two net gains in, the card out
VariationCalc ==
    /\ calc.op = "gains"
    /\ calc' = [op |-> "card", measure |-> calc.measure,
                current_gain |-> calc.current_gain, previous_gain |-> calc.previous_gain,
                variation |-> Variation(calc.current_gain, calc.previous_gain),
                card |-> VariationCard(calc.measure, calc.current_gain,
                                       Variation(calc.current_gain, calc.previous_gain))]
    /\ UNCHANGED <<storeVars, clientVars>>

-----------------------------------------------------------------------------
(* The loader of the notebooks: load_data in utils/data_processing.py *)

\* the metric columns load_data keeps (skeletal_muscle_mass under its new name)
LoadMeasures == {"weight", "muscle_mass", "body_fat_mass", "basal_metabolic_rate"}

LoadUniform(v) == [m \in LoadMeasures |-> v]

\* a date filter that is not given (None, or the empty string: `if date_from:`)
NoDate == [given |-> FALSE, ok |-> TRUE, day |-> 0]

\* date_from / date_to: not given, a YYYY-MM-DD string, or a string strptime rejects
DateArg(days) ==
    {NoDate} \cup {[given |-> TRUE, ok |-> p.ok, day |-> p.day] : p \in DateParam(days)}

\* df.filter(pl.col("deviceuuid") == device_id) under `if device_id:`
DeviceFiltered(df, device_id) ==
    IF device_id # "" THEN SelectSeq(df, LAMBDA r : r.deviceuuid = device_id) ELSE df

\* select + with_columns + rename: the casts and roundings of the kept columns
LoadColumns(df) ==
    [i \in 1..Len(df) |->
        [create_time |-> df[i].create_time,
         vals |-> [m \in LoadMeasures |->
                     IF m = "basal_metabolic_rate" THEN IntCol(df[i].cells[m])
                     ELSE RoundCol(df[i].cells[m])]]]

\* the two date filters; date_from and date_to are midnights after strptime
DateFiltered(df, date_from, date_to) ==
    LET lower == IF date_from.given
                 THEN SelectSeq(df, LAMBDA r : r.create_time >= Midnight(date_from.day))
                 ELSE df
    IN IF date_to.given
       THEN SelectSeq(lower, LAMBDA r : r.create_time <= Midnight(date_to.day))
       ELSE lower

\* the frame after the device filter, the column operations and the date filters
LoadFiltered(df, date_from, date_to, device_id) ==
    DateFiltered(LoadColumns(DeviceFiltered(df, device_id)), date_from, date_to)

\* df.sort("create_time", descending=False); rows of one instant in any order
SortsByCreateTime(df) ==
    {[i \in 1..Len(df) |-> df[p[i]]] : p \in
        {q \in Orders(Len(df)) :
            \A i, j \in 1..Len(df) : i < j => df[q[i]].create_time <= df[q[j]].create_time}}

\* mean().round(0).cast(int) of a column kept in hundredths: a whole number
RoundedMeanWhole(rows, field) ==
    LET xs == NonNull(Column(rows, field))
    IN IF xs = <<>> THEN Null ELSE RoundHalfEven(SumSeq(xs), Len(xs) * 100) * 100

\* the calendar days of a frame
DatesOf(df) == {DayOf(df[i].create_time) : i \in 1..Len(df)}

\* the row group_by("date").agg([...]) makes of one day of the sorted frame:
\* create_time.first() and the mean of every metric
DailyRow(sorted, day) ==
    LET rows == SelectSeq(sorted, LAMBDA r : DayOf(r.create_time) = day)
    IN [create_time |-> rows[1].create_time,
        vals |-> [m \in LoadMeasures |->
                    IF m = "basal_metabolic_rate" THEN RoundedMeanWhole(rows, m)
                    ELSE RoundedMean(rows, m)]]

\* group_by("date").agg([...]).drop("date"): one row per day, the rows in an order
\* group_by does not promise (maintain_order is off)
Daily(sorted, order) ==
    LET days == Ascending(DatesOf(sorted))
    IN [k \in 1..Len(days) |-> DailyRow(sorted, days[order[k]])]

\* df.drop_nulls()
DropNulls(df) == SelectSeq(df, LAMBDA r : \A m \in LoadMeasures : r.vals[m] # Null)

\* the elapse_days column: whole days since the smallest create_time
WithElapseDays(df) ==
    [i \in 1..Len(df) |->
        [create_time |-> df[i].create_time, vals |-> df[i].vals,
         elapse_days |-> TotalDays(df[i].create_time
                                     - MinOf([j \in 1..Len(df) |-> df[j].create_time]))]]

\* the two except clauses around the body: FileNotFoundError is raised again as
\* itself, every other exception as a plain Exception
Reraise(inner) == IF inner = "FileNotFoundError" THEN "FileNotFoundError" ELSE "Exception"

Loaded(args, inner, raised, filtered, result) ==
    [op |-> "loaded", csv |-> args.csv, date_from |-> args.date_from,
     date_to |-> args.date_to, device_id |-> args.device_id,
     file_exists |-> args.file_exists,
     inner |-> inner, raised |-> raised, filtered |-> filtered, result |-> result]

\* the call from read_csv on; `sorted` is the sorted frame, `order` the order of the
\* rows of the group_by.  The file, when it exists, has the columns load_data selects.
LoadOutcome(args, sorted, order) ==
    IF ~args.file_exists
    THEN Loaded(args, "FileNotFoundError", Reraise("FileNotFoundError"), <<>>, <<>>)
    ELSE IF (args.date_from.given /\ ~args.date_from.ok)
            \/ (args.date_to.given /\ ~args.date_to.ok)
    THEN Loaded(args, "ValueError", Reraise("ValueError"), <<>>, <<>>)
    ELSE Loaded(args, "", "", sorted, WithElapseDays(DropNulls(Daily(sorted, order))))

\* the frame the sort is given (empty when the call raises before)
LoadSortInput(args) ==
    IF ~args.file_exists \/ ~args.date_from.ok \/ ~args.date_to.ok THEN <<>>
    ELSE LoadFiltered(args.csv, args.date_from, args.date_to, args.device_id)

\* one call of load_data with the arguments held in calc
load_data ==
    /\ calc.op = "load"
    /\ \E sorted \in SortsByCreateTime(LoadSortInput(calc)) :
         \E order \in Orders(Cardinality(DatesOf(sorted))) :
            calc' = LoadOutcome(calc, sorted, order)
    /\ UNCHANGED <<storeVars, clientVars>>

-----------------------------------------------------------------------------
(* Monthly statistics: calculate_monthly_stats in utils/data_processing.py *)

\* dt.strftime("%Y-%m") of a datetime: months are numbered from the month of day 0,
\* and the order of the strings is the order of the numbers
MonthOf(t) == DayOf(t) \div DaysPerMonth

metrics == LoadMeasures

\* a cell of a *_variation column: null, or a difference (which may be negative)
NullCell == [is_null |-> TRUE, value |-> 0]

\* the sample standard deviation of a column kept in hundredths, .round(0).cast(int):
\* a whole number, null for fewer than 2 values
RoundedStdWhole(rows, field) ==
    LET xs == NonNull(Column(rows, field))
        n  == Len(xs)
        ds == [i \in 1..n |-> xs[i] - MinOf(xs)]
        N  == n * SumSeq([i \in 1..n |-> ds[i] * ds[i]]) - SumSeq(ds) * SumSeq(ds)
        D  == n * (n - 1)
    IN IF n < 2 THEN Null
       ELSE IF 4 * N < 10000 * D THEN 0
       ELSE 100 * (CHOOSE s \in 1..(MaxOf(ds) \div 100 + 1) :
                      /\ (2 * s - 1) * (2 * s - 1) * 10000 * D <= 4 * N
                      /\ 4 * N < (2 * s + 1) * (2 * s + 1) * 10000 * D)

\* df.group_by("month").agg([...]).sort("month"): one row per month of the frame
MonthlyAgg(df) ==
    LET months == Ascending({MonthOf(df[i].create_time) : i \in 1..Len(df)})
    IN [k \in 1..Len(months) |->
          LET rows == SelectSeq(df, LAMBDA r : MonthOf(r.create_time) = months[k])
          IN [month |-> months[k],
              record_count |-> Len(rows),
              mean |-> [m \in metrics |->
                          IF m = "basal_metabolic_rate" THEN RoundedMeanWhole(rows, m)
                          ELSE RoundedMean(rows, m)],
              std_dev |-> [m \in metrics |->
                          IF m = "basal_metabolic_rate" THEN RoundedStdWhole(rows, m)
                          ELSE RoundedStd(rows, m)]]]

\* a mutated shift: the first cell is filled with 0 (fill_value=0)
ShiftFilled(col) == [i \in 1..Len(col) |-> IF i = 1 THEN 0 ELSE col[i - 1]]

\* pl.col(mean_col).shift(1): every cell moved down by one row, the first one null
Shift(col) == [i \in 1..Len(col) |-> IF i = 1 THEN Null ELSE col[i - 1]]

\* (a - b).round(2) of two cells kept in hundredths: null when either is null
Minus(a, b) ==
    IF a = Null \/ b = Null THEN NullCell ELSE [is_null |-> FALSE, value |-> a - b]

\* the loop over metrics: the *_variation column of every metric added to the rows
MonthlyStats(df) ==
    LET agg == MonthlyAgg(df)
        mean_col(m) == [k \in 1..Len(agg) |-> agg[k].mean[m]]
    IN [k \in 1..Len(agg) |->
          [month |-> agg[k].month, record_count |-> agg[k].record_count,
           mean |-> agg[k].mean, std_dev |-> agg[k].std_dev,
           variation |-> [m \in metrics |-> Minus(mean_col(m)[k], Shift(mean_col(m))[k])]]]

\* one call of calculate_monthly_stats with the frame held in calc
calculate_monthly_stats ==
    /\ calc.op = "frame"
    /\ calc' = [op |-> "monthly_stats", df |-> calc.df, monthly_stats |-> MonthlyStats(calc.df)]
    /\ UNCHANGED <<storeVars, clientVars>>

-----------------------------------------------------------------------------
(* Store contents the query endpoints are run against.  The collection is an
   external store: a metric field of a document may be null. *)

QueryDays == 0..MaxDay

\* the instants documents are stamped at: first and last instant of two days
DocTimes == {At(d, k) : d \in {0, 1}, k \in {0, TicksPerDay - 1}}

DocVectors == {Uniform(1000), Uniform(2000), With(Uniform(1000), "muscleMass", Null),
               Uniform(Null)}

\* collections of one device, at most one document per instant, inserted in time order
Stores ==
    UNION {
        { [i \in 1..Cardinality(T) |->
              [measureDate |-> Ascending(T)[i], deviceId |-> "devA",
               vals |-> f[Ascending(T)[i]]]] : f \in [T -> DocVectors] }
        : T \in {U \in SUBSET DocTimes : Cardinality(U) <= MaxDocs} }

\* the instants of the documents the time progression is run against
BucketTimes == {Midnight(0), At(6, TicksPerDay - 1), Midnight(7), At(7, TicksPerDay - 1),
                Midnight(15)}

BucketVectors == {Uniform(3000), Uniform(3200), With(Uniform(3000), "muscleMass", Null)}

\* small collections around the bucket boundaries of a 7-day and a 15-day grouping
BucketStores ==
    UNION {
        { [i \in 1..Cardinality(T) |->
              [measureDate |-> Ascending(T)[i], deviceId |-> "devA",
               vals |-> f[Ascending(T)[i]]]] : f \in [T -> BucketVectors] }
        : T \in {U \in SUBSET BucketTimes : Cardinality(U) <= MaxBucketDocs} }

\* 56 consecutive daily records beginning on day 0, all taken at the same tick
Daily56(tick) ==
    [i \in 1..56 |-> [measureDate |-> At(i - 1, tick), deviceId |-> "devA",
                      vals |-> Uniform(3000 + 10 * (i - 1))]]

\* muscleMass 30, 32, 34, 36 on days 0, 10, 20, 30
FourReadings ==
    [i \in 1..4 |-> [measureDate |-> Midnight(10 * (i - 1)), deviceId |-> "devA",
                     vals |-> Uniform(3000 + 200 * (i - 1))]]

ScenarioStores == {Daily56(tick) : tick \in 0..(TicksPerDay - 1)} \cup {FourReadings}

\* the instants of the documents the scatter is run against: three days, the first
\* and the last with a reading at midnight and one at the end of the day
ScatterTimes == {Midnight(0), At(0, TicksPerDay - 1), Midnight(1), Midnight(2),
                 At(2, TicksPerDay - 1)}

ScatterVectors == {Uniform(7000), With(Uniform(7200), "muscleMass", 3000),
                   With(Uniform(7000), "weight", Null)}

ScatterStores ==
    UNION {
        { [i \in 1..Cardinality(T) |->
              [measureDate |-> Ascending(T)[i], deviceId |-> "devA",
               vals |-> f[Ascending(T)[i]]]] : f \in [T -> ScatterVectors] }
        : T \in {U \in SUBSET ScatterTimes : Cardinality(U) <= MaxBucketDocs} }

\* the readings of a row of the file, in thousandths: all columns filled, or the
\* weight cell empty
CsvReadings == {LoadUniform(70004), LoadUniform(72000),
                [LoadUniform(72000) EXCEPT !["weight"] = Null]}

\* what a row of the file can hold next to its create_time
CsvCells == {[deviceuuid |-> "devA", cells |-> c] : c \in CsvReadings}
            \cup {[deviceuuid |-> "devB", cells |-> LoadUniform(70004)]}

\* the files: up to MaxLoadRows rows of distinct instants, the newest row first
CsvFiles ==
    UNION {
        { [i \in 1..Cardinality(T) |->
              [create_time |-> Descending(T)[i],
               deviceuuid  |-> f[Descending(T)[i]].deviceuuid,
               cells       |-> f[Descending(T)[i]].cells]] : f \in [T -> CsvCells] }
        : T \in {U \in SUBSET DocTimes : Cardinality(U) <= MaxLoadRows} }

LoadDays == {0, 1}

\* the frames calculate_monthly_stats is given: what load_data returns for up to
\* MaxStatsRows days of three months, one record a day, in any order of the rows
StatsTimes == {Midnight(d) : d \in 0..(3 * DaysPerMonth - 1)}

StatsVectors == {LoadUniform(7000), LoadUniform(7200)}

StatsFrames ==
    UNION {
        { WithElapseDays([i \in 1..Cardinality(T) |->
              [create_time |-> Descending(T)[i], vals |-> f[Descending(T)[i]]]])
          : f \in [T -> StatsVectors] }
        : T \in {U \in SUBSET StatsTimes : Cardinality(U) <= MaxStatsRows} }

-----------------------------------------------------------------------------
(* Specifications *)

InitIdle == /\ _client = None /\ constructed = 0 /\ closing = {} /\ lifespan_pc = "start"
            /\ close_pc = None /\ handles = [t \in Tasks |-> NoHandle]
            /\ calc = [op |-> "none"]

\* the ingestion script and the endpoints over the collection it fills
Init == /\ store = <<>> /\ resp = [op |-> "none"] /\ lastOp = [op |-> "init"]
        /\ InitIdle

\* the parameters the endpoints are called with next to the ingestion
SmallDays == {0, 2}
SmallFields == {"weight", "height"}

ScatterQuery == get_scatter(SmallDays, {"weight"})

ProgressionQuery == get_time_progression({0}, {2}, SmallFields, {MinGroupTime})

VariationQuerySmall == get_variation_card({1, 2})

Next ==
    \/ upload_body_composition_data
    \/ ScatterQuery
    \/ ProgressionQuery
    \/ VariationQuerySmall

Spec == Init /\ [][Next]_vars

\* the client handle under concurrent request tasks
SpecClient == Init /\ [][NextClient]_vars

\* the variation arithmetic applied to every pair of gains
InitCalc ==
    /\ store = <<>> /\ resp = [op |-> "none"] /\ lastOp = [op |-> "init"]
    /\ _client = None /\ constructed = 0 /\ closing = {} /\ lifespan_pc = "start"
    /\ close_pc = None /\ handles = [t \in Tasks |-> NoHandle]
    /\ calc \in [op : {"gains"}, measure : Measures,
                 current_gain : -MaxGain..MaxGain, previous_gain : -MaxGain..MaxGain]

SpecCalc == InitCalc /\ [][VariationCalc]_vars

\* the variation endpoint over every small collection
InitVar == /\ store \in Stores /\ resp = [op |-> "none"] /\ lastOp = [op |-> "init"]
           /\ InitIdle

VariationQuery == get_variation_card(QueryDays)

SpecVar == InitVar /\ [][VariationQuery]_vars

\* the time-progression endpoint over small collections and the two scenarios
InitProgression ==
    /\ store \in BucketStores \cup ScenarioStores
    /\ resp = [op |-> "none"] /\ lastOp = [op |-> "init"]
    /\ InitIdle

\* requests around the bucket boundaries
BucketQuery ==
    get_time_progression({0, 1}, {7, 16}, {"muscleMass", "height"},
                         {MinGroupTime - 1, MinGroupTime, 15})

\* the requests of the two scenarios: 28-day and 15-day groups from day 0
ScenarioQuery == get_time_progression({0}, {31, 56}, {"muscleMass"}, {15, 28})

NextProgression == BucketQuery \/ ScenarioQuery

SpecProgression == InitProgression /\ [][NextProgression]_vars

\* the scatter endpoint over small collections of three days
InitScatter ==
    /\ store \in ScatterStores
    /\ resp = [op |-> "none"] /\ lastOp = [op |-> "init"]
    /\ InitIdle

ScatterFields == {"weight", "muscleMass"}

ScatterRun == get_scatter(QueryDays, ScatterFields)

SpecScatter == InitScatter /\ [][ScatterRun]_vars

\* load_data on every small file with every combination of its filters
InitLoad ==
    /\ store = <<>> /\ resp = [op |-> "none"] /\ lastOp = [op |-> "init"]
    /\ _client = None /\ constructed = 0 /\ closing = {} /\ lifespan_pc = "start"
    /\ close_pc = None /\ handles = [t \in Tasks |-> NoHandle]
    /\ calc \in [op : {"load"}, csv : CsvFiles, file_exists : BOOLEAN,
                 date_from : DateArg(LoadDays), date_to : DateArg(LoadDays),
                 device_id : {"", "devA"}]

SpecLoad == InitLoad /\ [][load_data]_vars

\* calculate_monthly_stats on every small frame
InitStats ==
    /\ store = <<>> /\ resp = [op |-> "none"] /\ lastOp = [op |-> "init"]
    /\ _client = None /\ constructed = 0 /\ closing = {} /\ lifespan_pc = "start"
    /\ close_pc = None /\ handles = [t \in Tasks |-> NoHandle]
    /\ calc \in [op : {"frame"}, df : StatsFrames]

SpecStats == InitStats /\ [][calculate_monthly_stats]_vars

-----------------------------------------------------------------------------
(* Properties of the collection *)

\* C1: after any sequence of ingestion runs the collection holds at most one
\* document per (measureDate, deviceId) pair.
C1_UniquePerKey ==
    \A i, j \in 1..Len(store) :
        (store[i].measureDate = store[j].measureDate /\ store[i].deviceId = store[j].deviceId)
            => i = j

\* an ingestion run has left three documents: two devices at one instant, one device
\* at two instants
C1_Witness ==
    /\ lastOp.op = "upload" /\ Len(store) = 3
    /\ \E i, j \in 1..Len(store) :
          store[i].measureDate = store[j].measureDate /\ store[i].deviceId # store[j].deviceId
    /\ \E i, j \in 1..Len(store) :
          store[i].measureDate # store[j].measureDate /\ store[i].deviceId = store[j].deviceId

\* C2: after an ingestion run, every (measureDate, deviceId) the run wrote has exactly
\* one stored document, and it carries the metric values of the last record of the
\* run with that pair, also when two records of one bulk batch share the pair.
C2_LastWriteWins ==
    lastOp.op = "upload" =>
        \A k \in DOMAIN lastOp.last :
            /\ Cardinality({i \in 1..Len(store) :
                   store[i].measureDate = k[1] /\ store[i].deviceId = k[2]}) = 1
            /\ \A i \in 1..Len(store) :
                   (store[i].measureDate = k[1] /\ store[i].deviceId = k[2])
                       => store[i].vals = lastOp.last[k]

QueryOps == {"scatter", "progression", "variation"}

\* C3: no query endpoint creates, changes or deletes a stored measurement, whether
\* the request succeeds or fails.
C3_QueriesLeaveStore == [][lastOp'.op \in QueryOps => store' = store]_vars

\* a variation request has been answered from a collection of three documents
C3_Witness == lastOp.op = "variation" /\ resp.status = 200 /\ Len(store) = 3

-----------------------------------------------------------------------------
(* Properties of the client handle *)

\* requests served between startup and shutdown: constructed once, one client for all
C4_OneClient ==
    /\ lifespan_pc # "stopped" => constructed <= 1
    /\ lifespan_pc \in {"serving", "closing"} => constructed = 1 /\ _client = 1
    /\ \A t \in Tasks :
          handles[t].phase = "serving" =>
              /\ handles[t].client = 1
              /\ lifespan_pc \in {"serving", "closing"} => handles[t].client = _client
    /\ \A t, u \in Tasks :
          handles[t].phase = "serving" /\ handles[u].phase = "serving"
              => handles[t].client = handles[u].client

\* the step that ends the shutdown: the client was closed and the handle is cleared
C4_ShutdownStep ==
    (lifespan_pc # "stopped" /\ lifespan_pc' = "stopped")
        => /\ _client' = None
           /\ _client # None => _client \in closing'
           /\ constructed' = 1 => 1 \in closing'

\* C4: under any interleaving of request tasks between application startup and
\* shutdown, the store client is constructed at most once, every get_database call
\* returns a database of that same client, and shutdown closes the client and clears
\* the handle.
C4_SingleClientLifecycle == [](C4_OneClient) /\ [][C4_ShutdownStep]_vars

\* two requests served side by side hold the one client, and the shutdown has run
C4_Witness ==
    /\ lifespan_pc = "stopped" /\ _client = None /\ closing = {1} /\ constructed = 1
    /\ \E t, u \in Tasks : t # u /\ handles[t].phase = "serving" /\ handles[u].phase = "serving"

-----------------------------------------------------------------------------
(* Properties of the variation cards *)

\* C5: the variation of every card follows from currentGain and previousGain: 0 when
\* both are 0, +100 / -100 when previousGain is 0 and currentGain is positive /
\* negative, otherwise (currentGain - previousGain) / abs(previousGain) * 100; so
\* previousGain = -10, currentGain = 10 gives 200.  The card shows it rounded to 2
\* decimals.
C5_VariationFormula ==
    calc.op = "card" =>
        LET cg == calc.current_gain
            pg == calc.previous_gain
            v  == calc.variation
        IN /\ v.den > 0
           /\ (pg = 0 /\ cg = 0) => v.num = 0
           /\ (pg = 0 /\ cg > 0) => v.num = 100 * v.den
           /\ (pg = 0 /\ cg < 0) => v.num = -100 * v.den
           /\ pg > 0 => v.num * pg = (cg - pg) * 100 * v.den
           /\ pg < 0 => v.num * (-pg) = (cg - pg) * 100 * v.den
           /\ (pg = -10 /\ cg = 10) => v.num = 200 * v.den /\ calc.card.variation = 20000
           /\ (pg = 0 /\ cg = 5) => calc.card.variation = 10000
           /\ 2 * Abs(calc.card.variation * v.den - 100 * v.num) <= v.den

\* previousGain = -10 and currentGain = 10 came to a variation of 200
C5_Witness ==
    /\ calc.op = "card" /\ calc.previous_gain = -10 /\ calc.current_gain = 10
    /\ calc.card.variation = 20000

\* the request passed the validation of its dates
Accepted == resp.op = "variation" /\ resp.status # 400

\* the calendar days with an instant in lo..hi
CalendarDays(lo, hi) == {DayOf(t) : t \in lo..hi}

\* C6: for every accepted (start_date, end_date) the current range and the previous
\* range cover the same number of calendar days, and the previous range ends
\* exactly where the current range begins.
C6_EqualLengthWindows ==
    Accepted =>
        /\ Cardinality(CalendarDays(resp.start, resp.end))
             = Cardinality(CalendarDays(resp.previous_period_start, resp.start - 1))
        /\ \A i \in 1..Len(resp.previous_data) : resp.previous_data[i].measureDate < resp.start
        /\ \A i \in 1..Len(resp.current_data) : resp.current_data[i].measureDate >= resp.start

\* the entries of the loop that produced a card
Emitted == {i \in 1..Len(resp.loop) : ~resp.loop[i].raised}

HigherIsBetter(m) == m \in {"muscleMass", "weight", "totalBodyWater", "basalMetabolicRate"}

EndsKnown(frame, m) ==
    frame # <<>> => /\ \E i \in 1..Len(frame) :
                          /\ \A j \in 1..Len(frame) : frame[i].measureDate <= frame[j].measureDate
                          /\ frame[i].vals[m] # Null
                    /\ \E i \in 1..Len(frame) :
                          /\ \A j \in 1..Len(frame) : frame[i].measureDate >= frame[j].measureDate
                          /\ frame[i].vals[m] # Null

\* C8: a measure whose computation fails (a null first or last value in a range) is
\* left out while every other measure gets its card; the request fails with the 404
\* NoData error only when no measure produced a card.
C8_PartialResults ==
    (resp.op = "variation" /\ resp.current_data # <<>>) =>
        /\ \A m \in Measures :
              (EndsKnown(resp.current_data, m) /\ EndsKnown(resp.previous_data, m))
                  <=> \E k \in 1..Len(resp.cards) : resp.cards[k].measure = display_name[m]
        /\ Len(resp.cards) <= Cardinality(Measures)
        /\ resp.status = 200 <=> resp.cards # <<>>
        /\ resp.status = 404 <=>
              /\ resp.cards = <<>>
              /\ resp.detail = "No valid variation calculations could be performed"

\* muscleMass failed and the four other measures have their cards
C8_Witness ==
    /\ resp.op = "variation" /\ resp.status = 200
    /\ \E i \in 1..Len(resp.loop) : resp.loop[i].raised /\ resp.loop[i].measure = "muscleMass"
    /\ Len(resp.cards) = 4

-----------------------------------------------------------------------------
(* Properties of the time progression *)

Bucketed == resp.op = "progression" /\ resp.data # <<>>

\* the days since start of the members of a group
MemberDays(k) ==
    {DeltaDays(resp.data[i].measureDate, resp.start) : i \in resp.grouped[k].members}

\* the request of the first scenario: 56 daily records from the start date, 28-day groups
Is56Scenario ==
    /\ Bucketed /\ store \in {Daily56(tick) : tick \in 0..(TicksPerDay - 1)}
    /\ resp.start = Midnight(0) /\ resp.group_time = 28 /\ Len(resp.data) = 56

\* C9: every fetched record is in exactly one bucket, the one with index
\* floor(floor(days(measureDate - start)) / group_time), which is the bucket whose
\* group_time days hold the record; so 56 consecutive daily records from the start
\* date with group_time = 28 give exactly 2 buckets, days 0-27 and days 28-55.
C9_OneBucketPerRecord ==
    /\ Bucketed =>
          \A i \in 1..Len(resp.data) :
              /\ Cardinality({k \in 1..Len(resp.grouped) : i \in resp.grouped[k].members}) = 1
              /\ \A k \in 1..Len(resp.grouped) :
                    i \in resp.grouped[k].members =>
                       LET g  == resp.grouped[k].time_group
                           w  == resp.group_time * TicksPerDay
                           t  == resp.data[i].measureDate
                       IN /\ resp.start + g * w <= t
                          /\ t < resp.start + (g + 1) * w
                          /\ g = (DeltaDays(t, resp.start)) \div resp.group_time
    /\ Is56Scenario =>
          /\ Len(resp.grouped) = 2
          /\ resp.grouped[1].time_group = 0 /\ MemberDays(1) = 0..27
          /\ resp.grouped[2].time_group = 1 /\ MemberDays(2) = 28..55
          /\ resp.status = 200 /\ Len(resp.dataPoints) = 2

\* the 56 daily records, taken late in the day, have been grouped by 28 days
C9_Witness ==
    /\ Is56Scenario /\ store = Daily56(TicksPerDay - 1)
    /\ resp.status = 200 /\ Len(resp.grouped) = 2

\* the request of the second scenario: the four readings, 15-day groups from day 0
IsFourReadings ==
    /\ Bucketed /\ store = FourReadings /\ resp.start = Midnight(0)
    /\ resp.group_time = 15 /\ Len(resp.data) = 4 /\ resp.status = 200

\* the group and the point of a bucket index: its days and its mean
HasBucket(index, days, mean) ==
    \E k \in 1..Len(resp.grouped) :
        /\ resp.grouped[k].time_group = index
        /\ MemberDays(k) = days
        /\ resp.dataPoints[k].value = mean

\* C10 as claimed: muscleMass 30, 32, 34, 36 on days 0, 10, 20, 30 with 15-day buckets
\* gives bucket 0 with mean 31.0 (days 0, 10) and bucket 1 with mean 35.0 (days 20, 30).
C10_TwoBuckets ==
    IsFourReadings => HasBucket(0, {0, 10}, 3100) /\ HasBucket(1, {20, 30}, 3500)

\* C10 amended: the same readings give three buckets: bucket 0 with mean 31.0 (days
\* 0, 10), bucket 1 with mean 34.0 (day 20), bucket 2 with mean 36.0 (day 30).
C10_ThreeBuckets ==
    IsFourReadings =>
        /\ Len(resp.grouped) = 3 /\ Len(resp.dataPoints) = 3
        /\ HasBucket(0, {0, 10}, 3100)
        /\ HasBucket(1, {20}, 3400)
        /\ HasBucket(2, {30}, 3600)

\* the four readings have been grouped
C10_Witness == IsFourReadings /\ Len(resp.dataPoints) = 3

\* a chart came back
Charted == resp.op = "progression" /\ resp.status = 200

\* the bucket index of an instant: whole days since start over the group width
BucketIndex(t) == DeltaDays(t, resp.start) \div resp.group_time

\* C11: the time-progression points are emitted in strictly ascending bucket-index
\* order, exactly one point per bucket index that holds at least one fetched record
\* and no point for a bucket index that holds none.
C11_AscendingBuckets ==
    Charted =>
        /\ Len(resp.dataPoints) = Len(resp.grouped)
        /\ \A j, k \in 1..Len(resp.grouped) :
              j < k => resp.grouped[j].time_group < resp.grouped[k].time_group
        /\ {resp.grouped[k].time_group : k \in 1..Len(resp.grouped)}
              = {BucketIndex(resp.data[i].measureDate) : i \in 1..Len(resp.data)}
        /\ \A k \in 1..Len(resp.grouped) :
              /\ resp.grouped[k].members # {}
              /\ resp.dataPoints[k].value = resp.grouped[k].mean_value

\* a chart of two points for the buckets 0 and 2: no record fell into bucket 1
C11_Witness ==
    /\ Charted /\ Len(resp.dataPoints) = 2
    /\ resp.grouped[1].time_group = 0 /\ resp.grouped[2].time_group = 2

\* the records of a bucket that carry a value of the measure
Samples(k) ==
    {i \in resp.grouped[k].members : resp.data[i].vals[lastOp.measure_field] # Null}

\* C12: every time-progression point carries a standard deviation that is not null;
\* a bucket with fewer than 2 samples, so one with exactly one sample, is reported
\* with std = 0.
C12_StdNeverNull ==
    (Charted /\ lastOp.op = "progression") =>
        \A k \in 1..Len(resp.dataPoints) :
            /\ resp.dataPoints[k].std # Null
            /\ resp.dataPoints[k].std >= 0
            /\ Cardinality(Samples(k)) < 2 => resp.dataPoints[k].std = 0

\* a chart with a bucket of one sample (std 0) after a bucket of two samples that
\* differ (std above 0)
C12_Witness ==
    /\ Charted /\ lastOp.op = "progression" /\ Len(resp.dataPoints) = 2
    /\ Cardinality(Samples(1)) = 2 /\ resp.dataPoints[1].std > 0
    /\ Cardinality(Samples(2)) = 1 /\ resp.dataPoints[2].std = 0

\* the request passed the validation of its parameters: the store has been queried
ProgressionAsked ==
    /\ lastOp.op = "progression" /\ resp.op = "progression"
    /\ resp.status \notin {400, 422}

\* the stored records with measureDate in [start, end] of the request
InRange ==
    {i \in 1..Len(store) :
        /\ Midnight(lastOp.start_date.day) <= store[i].measureDate
        /\ store[i].measureDate <= Midnight(lastOp.end_date.day)}

-----------------------------------------------------------------------------
(* Properties of the scatter *)

\* the request passed the validation of its dates and fields: the pipeline has run
ScatterAsked == lastOp.op = "scatter" /\ resp.op = "scatter" /\ resp.status # 400

\* the stored records the $match of the request selects
Matched ==
    {i \in 1..Len(store) :
        /\ Midnight(lastOp.start_date.day) <= store[i].measureDate
        /\ store[i].measureDate <= Midnight(lastOp.end_date.day)}

MatchedDays == {DayOf(store[i].measureDate) : i \in Matched}

\* the selected records carry both fields, as ingestion leaves every record
Filled ==
    \A i \in Matched : /\ store[i].vals[lastOp.x_field] # Null
                       /\ store[i].vals[lastOp.y_field] # Null

C15_NullCorrelationReturned ==
    (ScatterAsked /\ Cardinality(MatchedDays) < 2 /\ Filled) =>
        /\ resp.status = 200
        /\ resp.correlation.kind = "None"
        /\ Len(resp.dataPoints) = Cardinality(MatchedDays)

\* C16: the date range of the scatter is inclusive at both ends: every stored record
\* whose calendar day lies between start_date and end_date inclusive, at whatever
\* time of the day, contributes to the point of its day.
C16_InclusiveDays ==
    (ScatterAsked /\ resp.status = 200) =>
        \A d \in lastOp.start_date.day .. lastOp.end_date.day :
            RowsOfDay(store, d) # <<>> =>
                \E k \in 1..Len(resp.dataPoints) :
                    /\ resp.dataPoints[k].date = Midnight(d)
                    /\ resp.dataPoints[k].x = RoundedMean(RowsOfDay(store, d), lastOp.x_field)
                    /\ resp.dataPoints[k].y = RoundedMean(RowsOfDay(store, d), lastOp.y_field)

\* C17: every date range that reaches an aggregation (the store query and the
\* computation after it) in get_scatter, get_time_progression and
\* get_variation_card satisfies start <= end.
C17_RangesOrdered ==
    (resp.op \in QueryOps /\ resp.status \notin {400, 422}) => resp.start <= resp.end

-----------------------------------------------------------------------------
(* Properties of load_data *)

\* load_data returned a frame
Returned == calc.op = "loaded" /\ calc.raised = ""

\* the chronologically first row of a day in the filtered input
FirstOfDay(day) ==
    CHOOSE r \in {calc.filtered[i] : i \in 1..Len(calc.filtered)} :
        /\ DayOf(r.create_time) = day
        /\ \A i \in 1..Len(calc.filtered) :
              DayOf(calc.filtered[i].create_time) = day
                  => r.create_time <= calc.filtered[i].create_time

\* no cell of the filtered input is empty
Complete ==
    \A i \in 1..Len(calc.filtered), m \in LoadMeasures : calc.filtered[i].vals[m] # Null

\* C18: load_data returns exactly one record per calendar day present in the
\* filtered input, and that record is the chronologically first measurement of the
\* day: its timestamp and its metric values are those of the day's first record
\* (stated for input without an empty cell).
C18_FirstRecordOfDay ==
    (Returned /\ Complete) =>
        /\ {DayOf(calc.result[k].create_time) : k \in 1..Len(calc.result)}
              = DatesOf(calc.filtered)
        /\ Len(calc.result) = Cardinality(DatesOf(calc.filtered))
        /\ \A k \in 1..Len(calc.result) :
              LET first == FirstOfDay(DayOf(calc.result[k].create_time))
              IN /\ calc.result[k].create_time = first.create_time
                 /\ calc.result[k].vals = first.vals

\* the rows of the file that pass the device filter
OfDevice ==
    {i \in 1..Len(calc.csv) : calc.device_id # "" => calc.csv[i].deviceuuid = calc.device_id}

\* C19: the date filter of load_data is inclusive and each bound is optional on its
\* own: a record is kept exactly when its calendar day is on or after date_from and
\* on or before date_to, so a record taken at any time of the date_to day is kept.
C19_InclusiveDateFilter ==
    Returned =>
        {calc.filtered[k].create_time : k \in 1..Len(calc.filtered)}
            = {calc.csv[i].create_time : i \in
                  {j \in OfDevice :
                      /\ calc.date_from.given => DayOf(calc.csv[j].create_time) >= calc.date_from.day
                      /\ calc.date_to.given => DayOf(calc.csv[j].create_time) <= calc.date_to.day}}

\* C20: load_data called with a date_from or date_to that is not in YYYY-MM-DD
\* format fails with a ValueError, which its type tells from other failures.
C20_InvalidDateValueError ==
    (/\ calc.op = "loaded" /\ calc.file_exists
     /\ (~calc.date_from.ok \/ ~calc.date_to.ok)) => calc.raised = "ValueError"

-----------------------------------------------------------------------------
(* Properties of calculate_monthly_stats *)

\* the records of a month of the frame given
RecordsOfMonth(month) == {i \in 1..Len(calc.df) : MonthOf(calc.df[i].create_time) = month}

\* C21: calculate_monthly_stats returns one row per YYYY-MM month that has records,
\* sorted ascending by month; for each metric the variation of the first row is null
\* and the variation of every later row is that month's mean minus the mean of the
\* row before it, the month before it among those that have records.
C21_MonthlyVariation ==
    calc.op = "monthly_stats" =>
        LET out == calc.monthly_stats IN
        /\ {out[k].month : k \in 1..Len(out)}
              = {MonthOf(calc.df[i].create_time) : i \in 1..Len(calc.df)}
        /\ \A j, k \in 1..Len(out) : j < k => out[j].month < out[k].month
        /\ \A k \in 1..Len(out) :
              /\ out[k].record_count = Cardinality(RecordsOfMonth(out[k].month))
              /\ 2 * Abs(out[k].mean["weight"] * out[k].record_count
                         - SumSeq([i \in 1..Len(calc.df) |->
                                     IF i \in RecordsOfMonth(out[k].month)
                                     THEN calc.df[i].vals["weight"] ELSE 0]))
                    <= out[k].record_count
        /\ \A m \in metrics :
              /\ Len(out) >= 1 => out[1].variation[m].is_null
              /\ \A k \in 2..Len(out) :
                    /\ ~out[k].variation[m].is_null
                    /\ out[k].variation[m].value = out[k].mean[m] - out[k - 1].mean[m]

\* months 0 and 2 have records and month 1 has none: two rows, the mean weight of
\* the second below that of the first
C21_Witness ==
    /\ calc.op = "monthly_stats" /\ Len(calc.monthly_stats) = 2
    /\ calc.monthly_stats[1].month = 0 /\ calc.monthly_stats[1].record_count = 2
    /\ calc.monthly_stats[2].month = 2
    /\ calc.monthly_stats[1].variation["weight"].is_null
    /\ calc.monthly_stats[2].variation["weight"].value < 0

-----------------------------------------------------------------------------
(* Properties of the two ranges of the variation cards *)

\* the stored records of the current range [start, end] and of the previous range
\* [start - days, start) of the request answered
CurrentRange ==
    {i \in 1..Len(store) : resp.start <= store[i].measureDate /\ store[i].measureDate <= resp.end}

PreviousRange ==
    {i \in 1..Len(store) :
        /\ resp.previous_period_start <= store[i].measureDate
        /\ store[i].measureDate < resp.start}

\* the records the one find of the request fetches
Fetched ==
    {i \in 1..Len(store) :
        /\ resp.previous_period_start <= store[i].measureDate
        /\ store[i].measureDate <= resp.end}

InstantsOf(frame) == {frame[k].measureDate : k \in 1..Len(frame)}

\* C22: in the variation query the previous range is [start - days, start) and the
\* current range is [start, end]: every fetched record falls in exactly one of the
\* two, a record stamped exactly at start belongs to the current range only, and no
\* record contributes to both gains.
C22_DisjointRanges ==
    Accepted =>
        /\ resp.previous_period_start
              = resp.start - DeltaDays(resp.end, resp.start) * TicksPerDay
        /\ InstantsOf(resp.current_data) \cap InstantsOf(resp.previous_data) = {}
        /\ resp.current_data # <<>> =>
              /\ InstantsOf(resp.current_data) = {store[i].measureDate : i \in CurrentRange}
              /\ InstantsOf(resp.previous_data) = {store[i].measureDate : i \in PreviousRange}
              /\ Len(resp.current_data) + Len(resp.previous_data) = Cardinality(Fetched)
              /\ resp.start \notin InstantsOf(resp.previous_data)
              /\ (\E i \in Fetched : store[i].measureDate = resp.start)
                    => resp.start \in InstantsOf(resp.current_data)

\* cards were made with a record stamped exactly at start and a record before it
C22_Witness ==
    /\ Accepted /\ resp.status = 200
    /\ resp.start \in InstantsOf(resp.current_data)
    /\ resp.previous_data # <<>> /\ Len(resp.current_data) = 2

\* the value of a measure in the earliest and in the latest record of a set of
\* stored records (no two of them of one instant)
EarliestOf(R) == CHOOSE i \in R : \A j \in R : store[i].measureDate <= store[j].measureDate
LatestOf(R)   == CHOOSE i \in R : \A j \in R : store[i].measureDate >= store[j].measureDate

NetGain(R, m) == store[LatestOf(R)].vals[m] - store[EarliestOf(R)].vals[m]

\* C23: for each metric the gain of a range is the value of the chronologically last
\* record of the range minus the value of the chronologically first one (0 for a
\* range with a single record); when the previous range has no records
\* previousGain is 0.
C23_GainLastMinusFirst ==
    (Accepted /\ resp.loop # <<>>) =>
        \A k \in Emitted :
            LET e == resp.loop[k] IN
            /\ e.current_gain = NetGain(CurrentRange, e.measure)
            /\ Cardinality(CurrentRange) = 1 => e.current_gain = 0
            /\ PreviousRange = {} => e.previous_gain = 0
            /\ PreviousRange # {} => e.previous_gain = NetGain(PreviousRange, e.measure)
            /\ Cardinality(PreviousRange) = 1 => e.previous_gain = 0

\* a card for a weight that fell over the current range after it rose over the
\* previous one
C23_Witness ==
    /\ Accepted /\ resp.status = 200
    /\ \E k \in Emitted :
          /\ resp.loop[k].measure = "weight"
          /\ resp.loop[k].current_gain < 0 /\ resp.loop[k].previous_gain > 0

-----------------------------------------------------------------------------
(* Properties of the dates of the time progression *)

\* a chart came back for the request held in lastOp
ChartedRequest == Charted /\ lastOp.op = "progression"

\* the end date as requested
RequestedEnd == Midnight(lastOp.end_date.day)

\* the latest instant among the stored records of the requested range
LatestFetched ==
    CHOOSE t \in {store[i].measureDate : i \in InRange} :
        \A i \in InRange : store[i].measureDate <= t

\* the earliest and the latest instant of the records of a bucket
BucketEarliest(k) ==
    CHOOSE t \in {resp.data[i].measureDate : i \in resp.grouped[k].members} :
        \A i \in resp.grouped[k].members : t <= resp.data[i].measureDate

BucketLatest(k) ==
    CHOOSE t \in {resp.data[i].measureDate : i \in resp.grouped[k].members} :
        \A i \in resp.grouped[k].members : t >= resp.data[i].measureDate

\* the midpoint of a bucket is later than the end the response works with
MidpointAfterEnd(k) == BucketEarliest(k) + BucketLatest(k) > 2 * resp.end

\* C24: in the time-progression query end is first lowered to midnight of the day of
\* the latest fetched record when that record is earlier than end (otherwise left as
\* requested); the date of each point is then the midpoint of the earliest and the
\* latest timestamp of its bucket, replaced by the lowered end when the midpoint is
\* later, so no emitted date is later than that end.  (Instants are whole ticks: a
\* midpoint between two ticks is carried as one of the two.)
C24_EndClampThenMidpoint ==
    ChartedRequest =>
        /\ resp.end = IF LatestFetched < RequestedEnd THEN Midnight(DayOf(LatestFetched))
                      ELSE RequestedEnd
        /\ \A k \in 1..Len(resp.dataPoints) :
              /\ MidpointAfterEnd(k) => resp.dataPoints[k].date = resp.end
              /\ ~MidpointAfterEnd(k) =>
                    Abs(2 * resp.dataPoints[k].date - (BucketEarliest(k) + BucketLatest(k))) <= 1
              /\ resp.dataPoints[k].date <= resp.end

\* end was lowered; one point is the midpoint of a bucket of two instants, another
\* was put back to the lowered end
C24_Witness ==
    /\ ChartedRequest /\ resp.end < RequestedEnd /\ Len(resp.dataPoints) = 2
    /\ BucketEarliest(1) < BucketLatest(1) /\ ~MidpointAfterEnd(1)
    /\ MidpointAfterEnd(2) /\ resp.dataPoints[2].date = resp.end

\* C25 as claimed: the date of every time-progression point lies between the earliest
\* and the latest timestamp of the records of its own bucket (inclusive); the date
\* of a single-record bucket is that record's timestamp.
C25_DateWithinBucket ==
    ChartedRequest =>
        \A k \in 1..Len(resp.dataPoints) :
            /\ BucketEarliest(k) <= resp.dataPoints[k].date
            /\ resp.dataPoints[k].date <= BucketLatest(k)
            /\ BucketEarliest(k) = BucketLatest(k)
                  => resp.dataPoints[k].date = BucketEarliest(k)

\* C25 amended: the date of a point lies between the earliest and the latest
\* timestamp of its bucket, and is the record's timestamp for a single-record
\* bucket, unless the midpoint of the bucket is later than the lowered end.  That
\* happens only in the last bucket, the one of the latest fetched record, when end
\* was lowered to midnight of that record's day; the date is then that midnight,
\* earlier than the latest timestamp of the bucket (and earlier than its earliest
\* one when all its records are of that day after midnight).
C25_DateWithinBucketOrLoweredEnd ==
    ChartedRequest =>
        \A k \in 1..Len(resp.dataPoints) :
            /\ ~MidpointAfterEnd(k) =>
                  /\ BucketEarliest(k) <= resp.dataPoints[k].date
                  /\ resp.dataPoints[k].date <= BucketLatest(k)
                  /\ BucketEarliest(k) = BucketLatest(k)
                        => resp.dataPoints[k].date = BucketEarliest(k)
            /\ MidpointAfterEnd(k) =>
                  /\ k = Len(resp.dataPoints)
                  /\ BucketLatest(k) = LatestFetched
                  /\ LatestFetched < RequestedEnd
                  /\ resp.dataPoints[k].date = Midnight(DayOf(LatestFetched))
                  /\ resp.dataPoints[k].date < BucketLatest(k)
                  /\ DayOf(BucketEarliest(k)) = DayOf(LatestFetched)
                     /\ BucketEarliest(k) # Midnight(DayOf(LatestFetched))
                        => resp.dataPoints[k].date < BucketEarliest(k)

\* the one record of the last bucket was taken at the end of its day, and the date
\* of its point is the midnight before it
C25_Witness ==
    /\ ChartedRequest /\ Len(resp.dataPoints) = 2
    /\ BucketEarliest(2) = BucketLatest(2)
    /\ MidpointAfterEnd(2)
    /\ resp.dataPoints[2].date < BucketEarliest(2)
    /\ BucketEarliest(1) = BucketLatest(1)
    /\ resp.dataPoints[1].date = BucketEarliest(1)

-----------------------------------------------------------------------------
(* Properties of the client handle while it is being closed *)

\* C26: under any interleaving of close_client with request tasks, a client handle
\* returned by get_client or get_database is never one on which close has already
\* been started.  (close_client has one caller, the lifespan, which calls it once:
\* two calls of it do not overlap.)
C26_NoHandleOnClosingClient == \A t \in Tasks : ~handles[t].closing

-----------------------------------------------------------------------------
(* Properties of the variation cards across the orders of the documents *)

\* the cards of every order in which the store can return the documents of the
\* request answered and the sort can leave those of equal measureDate
CardsOfEveryOrder ==
    LET start_date == [ok |-> TRUE, day |-> DayOf(resp.start)]
        end_date   == [ok |-> TRUE, day |-> DayOf(resp.end)]
    IN {VariationOutcome(store, start_date, end_date, current_sorted, previous_sorted).cards :
            current_sorted \in Sorts(CurrentData(store, start_date, end_date)),
            previous_sorted \in Sorts(PreviousData(store, start_date, end_date))}

\* C27: the variation cards returned for a given store content and date range are
\* the same whatever order the store returns the documents in, also when two
\* records of a range carry the same measureDate (for example from two devices).
C27_OrderIndependentCards ==
    (resp.op = "variation" /\ resp.status # 400) => CardsOfEveryOrder = {resp.cards}
====
